---- MODULE Spec2Model ----
(***************************************************************************)
(* Zone-entry alerting of src/vp01/app_vp01r02.py: the frame loop of       *)
(* processar_video, its ledger pessoas_na_zona, the zone test on the       *)
(* centroid of each confirmed track, and the detached tocar_alarme         *)
(* threads it starts.                                                      *)
(*                                                                         *)
(* The detector and the tracker are external: what update_tracks returns   *)
(* for a frame is an arbitrary list of tracks.  The for loop reads that    *)
(* list once, front to back, so the model draws each track at the moment   *)
(* the loop reaches it (ExaminarTrack) and lets the list end at any point  *)
(* (FimTracks).  The tracker is not assumed to give distinct track_ids.    *)
(***************************************************************************)
EXTENDS Integers, Sequences, FiniteSets

\* ------------------------------------------------------------------ bounds
MaxFrames == 3      \* frames the source can deliver
MaxTracks == 2      \* tracks update_tracks returns for one frame
MaxId == 2          \* track identities 1..MaxId
MaxCoord == 5       \* coordinate range of the boxes tried on the zone test
MaxDet == 2         \* raw detections the model returns for one frame
FrameWidth == 100   \* CAP_PROP_FRAME_WIDTH of the video
FrameHeight == 100  \* CAP_PROP_FRAME_HEIGHT of the video

Ids == 1..MaxId

\* Boxes (left, top, right, bottom) a track reports, as read by
\* map(int, track.to_ltrb()): one well inside the zone, one outside, and
\* one whose centroid falls on the zone's left edge.
Caixas == { <<60, 60, 70, 70>>, <<0, 0, 10, 10>>, <<35, 60, 45, 70>> }

Track == [id : Ids, confirmado : BOOLEAN, caixa : Caixas]

\* ------------------------------------------------------------------ state
VARIABLES
  pc,               \* position of processar_video
  cap,              \* the frame source: "fechado", "aberto", "liberado"
  out,              \* the output encoder, same values
  janela,           \* the display window: "nenhuma", "aberta", "destruida"
  retorno,          \* what the caller gets back: "nenhum" until the return
  frame,            \* frames decoded so far
  i,                \* tracks of the current frame examined so far
  pessoas_na_zona,  \* the ledger
  threads,          \* the alert threads started: per id, in start order
  ledger_inicio,    \* history: the ledger when the current frame was read
  zona_frame,       \* history: ids seen confirmed and in the zone this frame
  disparos_frame,   \* history: alerts started this frame, per id
  repetidos,        \* history: ids seen confirmed in the zone twice this frame
  permanencia,      \* history: the current dwell of each id
  vistos,           \* history: ids ever seen confirmed with centroid in zone
  vistos_qualquer,  \* history: ids ever seen (confirmed or not) in the zone
  saida,            \* history: how the loop was left
  emitidos,         \* history: the frames shown and written, in order
  zc,               \* the zone test on its own: inputs and result
  det,              \* the detection filter on its own: raw and passed on
  an                \* the drawing on its own: frame_draw and what was shown

vars == << pc, cap, out, janela, retorno, frame, i, pessoas_na_zona, threads,
           ledger_inicio, zona_frame, disparos_frame, repetidos, permanencia,
           vistos, vistos_qualquer, saida, emitidos, zc, det, an >>

loop_vars == << pc, cap, out, janela, retorno, frame, i, pessoas_na_zona >>
hist_vars == << ledger_inicio, zona_frame, disparos_frame, repetidos,
                permanencia, vistos, vistos_qualquer, saida, emitidos >>
proj_vars == << zc, det, an >>

\* ------------------------------------------------------------------ zone
\* int(frame_width * 0.4), int(frame_width * 0.95): truncation of a
\* non-negative product.
saida_x1 == (FrameWidth * 4) \div 10
saida_y1 == (FrameHeight * 4) \div 10
saida_x2 == (FrameWidth * 95) \div 100
saida_y2 == (FrameHeight * 95) \div 100
Zona == << saida_x1, saida_y1, saida_x2, saida_y2 >>

centro_x(c) == c[1] + ((c[3] - c[1]) \div 2)
centro_y(c) == c[2] + ((c[4] - c[2]) \div 2)

NaZona_borda(c, z) ==
  /\ z[1] <= centro_x(c) /\ centro_x(c) <= z[3]
  /\ z[2] <= centro_y(c) /\ centro_y(c) <= z[4]

NaZona(c, z) ==
  /\ z[1] < centro_x(c) /\ centro_x(c) < z[3]
  /\ z[2] < centro_y(c) /\ centro_y(c) < z[4]

\* ------------------------------------------------------------------ decision
Confirmado_ignora(t) == TRUE

Confirmado(t) == t.confirmado

Alerta_nivel(L, t) == Confirmado(t) /\ NaZona(t.caixa, Zona)

\* Lines 106-126: the thread is started for a confirmed track whose centroid
\* is in the zone and whose id is not in the ledger.
Alerta(L, t) == Confirmado(t) /\ NaZona(t.caixa, Zona) /\ t.id \notin L

NovoLedger_saida(L, t) ==
  IF Alerta(L, t) THEN L \cup {t.id}
  ELSE IF Confirmado(t) /\ ~NaZona(t.caixa, Zona) THEN L \ {t.id}
  ELSE L

NovoLedger_esquece(L, t) == L

NovoLedger_troca(L, t) == IF Alerta(L, t) THEN {t.id} ELSE L

NovoLedger_tentativo(L, t) ==
  IF NaZona(t.caixa, Zona) /\ t.id \notin L THEN L \cup {t.id} ELSE L

NovoLedger_todos(L, t) == IF Alerta(L, t) THEN Ids ELSE L

\* Lines 123-125: the ledger after the track has been examined.
NovoLedger(L, t) == IF Alerta(L, t) THEN L \cup {t.id} ELSE L

\* ------------------------------------------------------------------ threads
\* A thread of tocar_alarme: "inicio" (started, not yet run or still
\* running), "fim" (returned).  erro: loading or playing raised.
\* registrado: the except clause caught it and printed the message.
NovaThread(T) == [id |-> T, estado |-> "inicio", erro |-> FALSE, registrado |-> FALSE]

TratarFalha_sem_try(th) ==
  [th EXCEPT !.estado = "fim", !.erro = TRUE, !.registrado = FALSE]

\* Lines 26-27: except Exception, print.
TratarFalha(th) ==
  [th EXCEPT !.estado = "fim", !.erro = TRUE, !.registrado = TRUE]

\* Alerts started for id T since the stream began.
Disparos(T) == Len(threads[T])

\* Alerts started for the ids of S since the stream began.
RECURSIVE SomaDisparos(_)
SomaDisparos(S) ==
  IF S = {} THEN 0
  ELSE LET T == CHOOSE x \in S : TRUE
       IN Disparos(T) + SomaDisparos(S \ {T})

\* ------------------------------------------------------------------ history
SemPermanencia == [len |-> 0, fresco |-> FALSE, n1 |-> 0, nresto |-> 0]

\* The dwell of each id after a frame: zf the ids confirmed and in the zone
\* on it, li the ledger before it, df the alerts started on it.
AtualizarPermanencia(perm, zf, li, df) ==
  [T \in Ids |->
     IF T \in zf
       THEN IF perm[T].len = 0
              THEN [len |-> 1, fresco |-> T \notin li, n1 |-> df[T], nresto |-> 0]
              ELSE [perm[T] EXCEPT !.len = @ + 1, !.nresto = @ + df[T]]
       ELSE SemPermanencia]

ZcInicial == [zona |-> Zona, caixa |-> <<0, 0, 0, 0>>, res |-> FALSE, feito |-> FALSE]

\* ------------------------------------------------------------------ detection filter
\* Line 95: class 0 is person; confidences are in hundredths, 40 is 0.4.
ClassePessoa == 0
ConfLimiar == 40

\* A raw detection of the model: box.xyxy, box.conf, box.cls.
CaixasDet == { <<60, 60, 70, 70>>, <<5, 7, 10, 20>> }
Bruta ==
  [xyxy : CaixasDet,
   conf : {ConfLimiar - 1, ConfLimiar, ConfLimiar + 1},
   cls : {ClassePessoa, ClassePessoa + 1}]
Brutas == UNION { [1..n -> Bruta] : n \in 0..MaxDet }

Passa_inclusivo(b) == b.cls = ClassePessoa /\ b.conf >= ConfLimiar

\* Line 95: if cls == 0 and conf > 0.4.
Passa(b) == b.cls = ClassePessoa /\ b.conf > ConfLimiar

\* Line 96: ([x1, y1, x2 - x1, y2 - y1], conf, cls, frame).
Converter(b) ==
  [ltwh |-> << b.xyxy[1], b.xyxy[2], b.xyxy[3] - b.xyxy[1], b.xyxy[4] - b.xyxy[2] >>,
   conf |-> b.conf,
   cls |-> b.cls]

\* Lines 88-96: detections, built by appending in the order of the results.
RECURSIVE Filtrar(_)
Filtrar(bs) ==
  IF bs = << >> THEN << >>
  ELSE IF Passa(Head(bs))
         THEN << Converter(Head(bs)) >> \o Filtrar(Tail(bs))
         ELSE Filtrar(Tail(bs))

DetInicial ==
  [fase |-> "ler", quadro |-> 0, brutas |-> << >>, detections |-> << >>,
   tracker_in |-> << >>, updates |-> 0]

\* ------------------------------------------------------------------ drawing
\* What is drawn on an image: the zone rectangle with its caption, or the
\* box of a track with its label "Pessoa ID <track_id>".
AnotacaoZona == [ret |-> Zona, texto |-> "ZONA DE SAIDA"]
AnotacaoTrack(t) == [ret |-> t.caixa, texto |-> t.id]

DesenharZona_no_original(a) ==
  [a EXCEPT !.frame_draw = @ \cup {AnotacaoZona}, !.frame = @ \cup {AnotacaoZona}]

\* Lines 80-83: the rectangle and the caption go on frame_draw, the copy.
DesenharZona(a) == [a EXCEPT !.frame_draw = @ \cup {AnotacaoZona}]

Anotar_todos(fd, t) == fd \cup {AnotacaoTrack(t)}

\* Lines 106-113: the box and the label of a confirmed track go on frame_draw.
Anotar(fd, t) == IF Confirmado(t) THEN fd \cup {AnotacaoTrack(t)} ELSE fd

AnInicial ==
  [fase |-> "copiar", quadro |-> 0, n |-> 0, frame |-> {}, frame_draw |-> {},
   entrada |-> {}, confirmados |-> {}, tentativos |-> {}, emitido |-> {}]

\* Line 49: a bare return.  Line 138: the function body ends.  Either way
\* the caller gets None and no exception.
RetornoFalha == "None"
RetornoFimNormal == "None"

\* ------------------------------------------------------------------ Init
\* processar_video has been called and nothing has run yet.
LoopInicial ==
  /\ pc = "inicio"
  /\ cap = "fechado"
  /\ out = "fechado"
  /\ janela = "nenhuma"
  /\ retorno = "nenhum"
  /\ frame = 0
  /\ i = 0
  /\ pessoas_na_zona = {}
  /\ threads = [T \in Ids |-> << >>]
  /\ ledger_inicio = {}
  /\ zona_frame = {}
  /\ disparos_frame = [T \in Ids |-> 0]
  /\ repetidos = {}
  /\ permanencia = [T \in Ids |-> SemPermanencia]
  /\ vistos = {}
  /\ vistos_qualquer = {}
  /\ saida = "nenhuma"
  /\ emitidos = << >>

Init ==
  /\ LoopInicial
  /\ zc = ZcInicial
  /\ det = DetInicial
  /\ an = AnInicial

\* ------------------------------------------------------------------ loop
\* Lines 46-65: the source opens; the encoder is opened, the zone computed
\* and the ledger created empty.
AbrirVideo ==
  /\ pc = "inicio"
  /\ cap' = "aberto"
  /\ out' = "aberto"
  /\ pessoas_na_zona' = {}
  /\ pc' = "ler"
  /\ UNCHANGED << janela, retorno, frame, i, threads, hist_vars, proj_vars >>

\* Lines 46-49: the source does not open; print and a bare return.
FalhaAbrir ==
  /\ pc = "inicio"
  /\ cap' = "fechado"
  /\ pc' = "fim"
  /\ retorno' = RetornoFalha
  /\ UNCHANGED << out, janela, frame, i, pessoas_na_zona, threads,
                  hist_vars, proj_vars >>

LerFrame_zera ==
  /\ pc = "ler"
  /\ cap = "aberto"
  /\ frame < MaxFrames
  /\ frame' = frame + 1
  /\ i' = 0
  /\ pc' = "rastrear"
  /\ pessoas_na_zona' = {}
  /\ ledger_inicio' = {}
  /\ zona_frame' = {}
  /\ disparos_frame' = [T \in Ids |-> 0]
  /\ repetidos' = {}
  /\ UNCHANGED << cap, out, janela, retorno, threads,
                  permanencia, vistos, vistos_qualquer, saida, emitidos,
                  proj_vars >>

\* Lines 76-104: a frame is read, the detector and the tracker run on it.
LerFrame ==
  /\ pc = "ler"
  /\ cap = "aberto"
  /\ frame < MaxFrames
  /\ frame' = frame + 1
  /\ i' = 0
  /\ pc' = "rastrear"
  /\ ledger_inicio' = pessoas_na_zona
  /\ zona_frame' = {}
  /\ disparos_frame' = [T \in Ids |-> 0]
  /\ repetidos' = {}
  /\ UNCHANGED << cap, out, janela, retorno, pessoas_na_zona, threads,
                  permanencia, vistos, vistos_qualquer, saida, emitidos,
                  proj_vars >>

FimDoVideo_continua ==
  /\ pc = "ler"
  /\ cap = "aberto"
  /\ pc' = "ler"
  /\ UNCHANGED << cap, out, janela, retorno, frame, i, pessoas_na_zona, threads,
                  hist_vars, proj_vars >>

\* Lines 77-79: read returns no frame; break.
FimDoVideo ==
  /\ pc = "ler"
  /\ cap = "aberto"
  /\ pc' = "liberar"
  /\ saida' = "fim_video"
  /\ UNCHANGED << cap, out, janela, retorno, frame, i, pessoas_na_zona, threads,
                  ledger_inicio, zona_frame, disparos_frame, repetidos,
                  permanencia, vistos, vistos_qualquer, emitidos, proj_vars >>

\* Lines 105-126: one iteration of the for loop, on track t.
Examinar(t) ==
  /\ pc = "rastrear"
  /\ i < MaxTracks
  /\ i' = i + 1
  /\ pessoas_na_zona' = NovoLedger(pessoas_na_zona, t)
  /\ threads' = IF Alerta(pessoas_na_zona, t)
                  THEN [threads EXCEPT ![t.id] = Append(@, NovaThread(t.id))]
                  ELSE threads
  /\ disparos_frame' = IF Alerta(pessoas_na_zona, t)
                         THEN [disparos_frame EXCEPT ![t.id] = @ + 1]
                         ELSE disparos_frame
  /\ zona_frame' = IF t.confirmado /\ NaZona(t.caixa, Zona)
                     THEN zona_frame \cup {t.id} ELSE zona_frame
  /\ repetidos' = IF t.confirmado /\ NaZona(t.caixa, Zona) /\ t.id \in zona_frame
                    THEN repetidos \cup {t.id} ELSE repetidos
  /\ vistos' = IF t.confirmado /\ NaZona(t.caixa, Zona)
                 THEN vistos \cup {t.id} ELSE vistos
  /\ vistos_qualquer' = IF NaZona(t.caixa, Zona)
                          THEN vistos_qualquer \cup {t.id} ELSE vistos_qualquer
  /\ UNCHANGED << pc, cap, out, janela, retorno, frame, ledger_inicio,
                  permanencia, saida, emitidos, proj_vars >>

ExaminarTrack == \E t \in Track : Examinar(t)

\* Line 105: the track list is exhausted.
FimTracks ==
  /\ pc = "rastrear"
  /\ pc' = "emitir"
  /\ permanencia' =
       AtualizarPermanencia(permanencia, zona_frame, ledger_inicio, disparos_frame)
  /\ UNCHANGED << cap, out, janela, retorno, frame, i, pessoas_na_zona, threads,
                  ledger_inicio, zona_frame, disparos_frame, repetidos,
                  vistos, vistos_qualquer, saida, emitidos, proj_vars >>

EmitirFrame_no_for ==
  /\ pc = "emitir"
  /\ pc' = "tecla"
  /\ janela' = "aberta"
  /\ emitidos' = emitidos \o [k \in 1..i |-> frame]
  /\ UNCHANGED << cap, out, retorno, frame, i, pessoas_na_zona, threads,
                  ledger_inicio, zona_frame, disparos_frame, repetidos,
                  permanencia, vistos, vistos_qualquer, saida, proj_vars >>

\* Lines 128-129: imshow and out.write of the annotated frame.
EmitirFrame ==
  /\ pc = "emitir"
  /\ pc' = "tecla"
  /\ janela' = "aberta"
  /\ emitidos' = Append(emitidos, frame)
  /\ UNCHANGED << cap, out, retorno, frame, i, pessoas_na_zona, threads,
                  ledger_inicio, zona_frame, disparos_frame, repetidos,
                  permanencia, vistos, vistos_qualquer, saida, proj_vars >>

Tecla_retorna ==
  /\ pc = "tecla"
  /\ \/ pc' = "ler" /\ UNCHANGED << saida, retorno >>
     \/ pc' = "fim" /\ saida' = "tecla" /\ retorno' = RetornoFimNormal
  /\ ledger_inicio' = {}
  /\ zona_frame' = {}
  /\ disparos_frame' = [T \in Ids |-> 0]
  /\ repetidos' = {}
  /\ UNCHANGED << cap, out, janela, frame, i, pessoas_na_zona, threads,
                  permanencia, vistos, vistos_qualquer, emitidos, proj_vars >>

\* Lines 131-132, 76: waitKey; 'q' breaks, anything else goes back to the
\* while test.
Tecla ==
  /\ pc = "tecla"
  /\ \/ pc' = "ler" /\ UNCHANGED saida
     \/ pc' = "liberar" /\ saida' = "tecla"
  /\ ledger_inicio' = {}
  /\ zona_frame' = {}
  /\ disparos_frame' = [T \in Ids |-> 0]
  /\ repetidos' = {}
  /\ UNCHANGED << cap, out, janela, retorno, frame, i, pessoas_na_zona, threads,
                  permanencia, vistos, vistos_qualquer, emitidos, proj_vars >>

\* Lines 136-138: release, destroyAllWindows, and the function ends.
Liberar ==
  /\ pc = "liberar"
  /\ cap' = "liberado"
  /\ out' = "liberado"
  /\ janela' = "destruida"
  /\ retorno' = RetornoFimNormal
  /\ pc' = "fim"
  /\ UNCHANGED << frame, i, pessoas_na_zona, threads, hist_vars, proj_vars >>

\* ------------------------------------------------------------------ alert threads
TocarAlarme_reabilita(T, k) ==
  /\ threads[T][k].estado = "inicio"
  /\ \/ /\ threads' = [threads EXCEPT ![T][k].estado = "fim"]
        /\ UNCHANGED pessoas_na_zona
     \/ /\ threads' = [threads EXCEPT ![T][k] = TratarFalha(threads[T][k])]
        /\ pessoas_na_zona' = pessoas_na_zona \ {T}
  /\ UNCHANGED << pc, cap, out, janela, retorno, frame, i, hist_vars, proj_vars >>

\* Lines 22-27: the body of one thread, which shares nothing with the loop:
\* Sound and play succeed, or one of them raises and the handler runs.
TocarAlarme(T, k) ==
  /\ threads[T][k].estado = "inicio"
  /\ \/ threads' = [threads EXCEPT ![T][k].estado = "fim"]
     \/ threads' = [threads EXCEPT ![T][k] = TratarFalha(threads[T][k])]
  /\ UNCHANGED << loop_vars, hist_vars, proj_vars >>

tocar_alarme == \E T \in Ids : \E k \in DOMAIN threads[T] : TocarAlarme(T, k)

\* ------------------------------------------------------------------ Spec
Next ==
  \/ AbrirVideo
  \/ FalhaAbrir
  \/ LerFrame
  \/ FimDoVideo
  \/ ExaminarTrack
  \/ FimTracks
  \/ EmitirFrame
  \/ Tecla
  \/ Liberar
  \/ tocar_alarme

Spec == Init /\ [][Next]_vars

\* The steps of processar_video itself.  Its thread runs whenever it can:
\* read, waitKey(1) and the calls in between all return.
Loop ==
  \/ AbrirVideo
  \/ FalhaAbrir
  \/ LerFrame
  \/ FimDoVideo
  \/ ExaminarTrack
  \/ FimTracks
  \/ EmitirFrame
  \/ Tecla
  \/ Liberar

SpecJusto == Spec /\ WF_vars(Loop)

\* ------------------------------------------------------------------ zone test alone
\* The zone test applied to boxes and zones drawn from small sets.
ZonasTeste == { <<10, 10, 90, 90>>, <<1, 1, 4, 4>>, <<2, 0, 3, 5>> }

CaixasTeste ==
  { <<l, t, r, b>> : l \in 0..MaxCoord, t \in 0..MaxCoord,
                      r \in 0..MaxCoord, b \in 0..MaxCoord }
  \cup { <<0, 40, 20, 60>>, <<80, 40, 100, 60>>, <<40, 0, 60, 20>>,
         <<40, 80, 60, 100>>, <<40, 40, 60, 60>>, <<45, 45, 56, 55>> }

InitZona ==
  /\ LoopInicial
  /\ det = DetInicial
  /\ an = AnInicial
  /\ zc \in { [zona |-> z, caixa |-> c, res |-> FALSE, feito |-> FALSE] :
                z \in ZonasTeste,
                c \in {x \in CaixasTeste : x[1] <= x[3] /\ x[2] <= x[4]} }

\* Lines 120-122 on the box zc.caixa and the zone zc.zona.
AvaliarZona ==
  /\ ~zc.feito
  /\ zc' = [zc EXCEPT !.res = NaZona(zc.caixa, zc.zona), !.feito = TRUE]
  /\ UNCHANGED << loop_vars, threads, hist_vars, det, an >>

NextZona == AvaliarZona

SpecZona == InitZona /\ [][NextZona]_vars

\* ------------------------------------------------------------------ detection filter alone
\* Lines 77, 86: a frame is read and the model returns its raw detections.
DetectarFrame ==
  /\ det.fase = "ler"
  /\ det.quadro < MaxFrames
  /\ \E bs \in Brutas :
       det' = [det EXCEPT !.fase = "filtrar", !.quadro = @ + 1,
                          !.brutas = bs, !.detections = << >>]
  /\ UNCHANGED << loop_vars, threads, hist_vars, zc, an >>

\* Lines 88-104: the detections are filtered and handed to the tracker.
FiltrarERastrear ==
  /\ det.fase = "filtrar"
  /\ det' = [det EXCEPT !.fase = "ler",
                        !.detections = Filtrar(det.brutas),
                        !.tracker_in = Filtrar(det.brutas),
                        !.updates = @ + 1]
  /\ UNCHANGED << loop_vars, threads, hist_vars, zc, an >>

NextFiltro == DetectarFrame \/ FiltrarERastrear

SpecFiltro == Init /\ [][NextFiltro]_vars

\* ------------------------------------------------------------------ drawing alone
\* Lines 77-86, 104: a frame is read and copied, the zone is drawn on the
\* copy, and the frame is handed to the detector and to the tracker.
CopiarFrame ==
  /\ an.fase = "copiar"
  /\ an.quadro < MaxFrames
  /\ LET a0 == [an EXCEPT !.quadro = @ + 1, !.n = 0, !.frame = {},
                          !.frame_draw = {}, !.confirmados = {},
                          !.tentativos = {}]
         a1 == DesenharZona(a0)
     IN an' = [a1 EXCEPT !.fase = "anotar", !.entrada = a1.frame]
  /\ UNCHANGED << loop_vars, threads, hist_vars, zc, det >>

\* Lines 105-113: the drawing of one iteration of the for loop, on track t.
AnotarTrack(t) ==
  /\ an.fase = "anotar"
  /\ an.n < MaxTracks
  /\ an' = [an EXCEPT !.n = @ + 1,
                      !.frame_draw = Anotar(@, t),
                      !.confirmados = IF t.confirmado THEN @ \cup {t} ELSE @,
                      !.tentativos = IF t.confirmado THEN @ ELSE @ \cup {t}]
  /\ UNCHANGED << loop_vars, threads, hist_vars, zc, det >>

AnotarTracks == \E t \in Track : AnotarTrack(t)

\* Lines 128-129: frame_draw is shown and written.
EmitirAnotado ==
  /\ an.fase = "anotar"
  /\ an' = [an EXCEPT !.fase = "copiar", !.emitido = an.frame_draw]
  /\ UNCHANGED << loop_vars, threads, hist_vars, zc, det >>

NextAnotacao == CopiarFrame \/ AnotarTracks \/ EmitirAnotado

SpecAnotacao == Init /\ [][NextAnotacao]_vars

\* ------------------------------------------------------------------ claims
\* Between two frames, or after the loop.
Fronteira == pc \in {"ler", "liberar", "fim"}

\* Every step of the frame loop that the code can take at its position can
\* be taken, whatever the alert threads are doing.
LoopLivre ==
  /\ (pc = "ler" /\ frame < MaxFrames) => ENABLED LerFrame
  /\ pc = "ler" => ENABLED FimDoVideo
  /\ (pc = "rastrear" /\ i < MaxTracks) => \A t \in Track : ENABLED Examinar(t)
  /\ pc = "rastrear" => ENABLED FimTracks
  /\ pc = "emitir" => ENABLED EmitirFrame
  /\ pc = "tecla" => ENABLED Tecla
  /\ pc = "liberar" => ENABLED Liberar

\* C1: in a dwell of identity T that began with T not in the ledger, the
\* alert for T is started exactly once, on the first frame of the dwell, and
\* on none of the later frames.
C1_DisparoNoPrimeiroFrame ==
  \A T \in Ids :
    (permanencia[T].len >= 1 /\ permanencia[T].fresco)
      => (permanencia[T].n1 = 1 /\ permanencia[T].nresto = 0)

C1_Testemunha ==
  \E T \in Ids :
    /\ permanencia[T].fresco
    /\ permanencia[T].len >= 2
    /\ permanencia[T].n1 = 1
    /\ permanencia[T].nresto = 0

\* C2: once T is in the ledger, no step starts another alert for T and no
\* step takes T out of the ledger, whatever is observed of T afterwards.
C2_SemReAlerta ==
  [][\A T \in Ids :
       T \in pessoas_na_zona
         => (T \in pessoas_na_zona' /\ Len(threads'[T]) = Len(threads[T]))]_vars

\* T is again confirmed in the zone, in a dwell that began with T already in
\* the ledger: a re-entry, with no second alert.
C2_Testemunha ==
  \E T \in Ids :
    /\ T \in pessoas_na_zona
    /\ permanencia[T].len >= 1
    /\ ~permanencia[T].fresco
    /\ Disparos(T) = 1

\* C3 as stated: every dwell of every identity has exactly one alert.
C3_UmPorPermanencia ==
  \A T \in Ids :
    permanencia[T].len >= 1 => permanencia[T].n1 + permanencia[T].nresto = 1

\* C3 amended: a dwell that begins with the identity not yet in the ledger
\* has exactly one alert, any later dwell of that identity has none; no
\* dwell has more than one.
C3_UmNaPrimeiraPermanencia ==
  \A T \in Ids :
    permanencia[T].len >= 1
      => permanencia[T].n1 + permanencia[T].nresto
           = (IF permanencia[T].fresco THEN 1 ELSE 0)

C3_Testemunha ==
  \E T \in Ids : \E U \in Ids :
    /\ permanencia[T].len >= 1 /\ permanencia[T].fresco
    /\ permanencia[T].n1 + permanencia[T].nresto = 1
    /\ permanencia[U].len >= 1 /\ ~permanencia[U].fresco
    /\ permanencia[U].n1 + permanencia[U].nresto = 0

\* C4: examining a confirmed track with ledger L: out of the zone, no alert
\* and L unchanged; in the zone with its id in L, no alert and L unchanged;
\* in the zone with its id not in L, one alert and the ledger is L with the
\* id added.
C4_TabelaDeDecisao ==
  [][\A t \in Track :
       (t.confirmado /\ Examinar(t))
         => LET dentro == NaZona(t.caixa, Zona)
                L == pessoas_na_zona
            IN /\ ~dentro => (pessoas_na_zona' = L /\ threads' = threads)
               /\ (dentro /\ t.id \in L)
                    => (pessoas_na_zona' = L /\ threads' = threads)
               /\ (dentro /\ t.id \notin L)
                    => /\ pessoas_na_zona' = L \cup {t.id}
                       /\ Len(threads'[t.id]) = Len(threads[t.id]) + 1
                       /\ \A U \in Ids \ {t.id} : threads'[U] = threads[U]]_vars

\* In one frame an id was alerted and inserted, and a second track was
\* examined after it.
C4_Testemunha ==
  \E T \in Ids :
    /\ pc = "rastrear"
    /\ i >= 2
    /\ T \in ledger_inicio
    /\ T \in zona_frame
    /\ \E U \in Ids : U \notin ledger_inicio /\ disparos_frame[U] = 1
                        /\ U \in pessoas_na_zona

\* C5 as stated: between frames, the ledger is the set of ids of which some
\* track, confirmed or not, had its centroid in the zone.
C5_LedgerSseVisto == Fronteira => pessoas_na_zona = vistos_qualquer

\* C5 amended: between frames, the ledger is the set of ids of which some
\* confirmed track had its centroid in the zone on a frame processed so far.
C5_LedgerSseVistoConfirmado == Fronteira => pessoas_na_zona = vistos

C5_Testemunha ==
  /\ Fronteira
  /\ frame >= 2
  /\ pessoas_na_zona # {}
  /\ pessoas_na_zona # Ids
  /\ pessoas_na_zona = vistos

\* C6: examining a track that is not confirmed starts no alert and inserts
\* nothing, wherever the track is; an id enters the ledger only in the
\* examination of a confirmed track with that id.
C6_TentativoExcluido ==
  [][/\ \A t \in Track :
          (~t.confirmado /\ Examinar(t))
            => (pessoas_na_zona' = pessoas_na_zona /\ threads' = threads)
     /\ \A T \in Ids :
          (T \in pessoas_na_zona' /\ T \notin pessoas_na_zona)
            => \E t \in Track : t.id = T /\ t.confirmado /\ Examinar(t)]_vars

\* An unconfirmed track of T was seen in the zone; T has no alert and is not
\* in the ledger.
C6_Testemunha ==
  \E T \in Ids :
    /\ T \in vistos_qualquer
    /\ T \notin vistos
    /\ T \notin pessoas_na_zona
    /\ Disparos(T) = 0

\* C7: when the tracks of a frame have all been examined, each identity that
\* was confirmed in the zone on the frame and not in the ledger before it has
\* exactly one alert of this frame and is in the ledger, and no other
\* identity has an alert of this frame.
C7_IdentidadesIndependentes ==
  pc \in {"emitir", "tecla"}
    => \A T \in Ids :
         IF T \in zona_frame \ ledger_inicio
           THEN disparos_frame[T] = 1 /\ T \in pessoas_na_zona
           ELSE disparos_frame[T] = 0

C7_Testemunha ==
  /\ pc = "emitir"
  /\ Cardinality(zona_frame \ ledger_inicio) >= 2
  /\ \A T \in zona_frame : disparos_frame[T] = 1

\* C8: the zone test is true exactly when the centroid, the point (cx, cy)
\* with cx the floor of the middle of left..right and cy of top..bottom, is
\* strictly between the zone's edges; on zone (10,10)-(90,90) the centroids
\* (10,50), (90,50), (50,10), (50,90) are out and (50,50) is in.
C8_PredicadoDaZona ==
  zc.feito =>
    LET c == zc.caixa
        z == zc.zona
    IN /\ zc.res <=>
            \E cx \in c[1]..c[3] : \E cy \in c[2]..c[4] :
              /\ 2 * (cx - c[1]) <= c[3] - c[1]
              /\ c[3] - c[1] <= 2 * (cx - c[1]) + 1
              /\ 2 * (cy - c[2]) <= c[4] - c[2]
              /\ c[4] - c[2] <= 2 * (cy - c[2]) + 1
              /\ z[1] < cx /\ cx < z[3]
              /\ z[2] < cy /\ cy < z[4]
       /\ z = <<10, 10, 90, 90>> =>
            /\ c = <<0, 40, 20, 60>> => ~zc.res
            /\ c = <<80, 40, 100, 60>> => ~zc.res
            /\ c = <<40, 0, 60, 20>> => ~zc.res
            /\ c = <<40, 80, 60, 100>> => ~zc.res
            /\ c = <<40, 40, 60, 60>> => zc.res

C8_Testemunha ==
  /\ zc.feito
  /\ zc.zona = <<10, 10, 90, 90>>
  /\ zc.caixa = <<80, 40, 100, 60>>
  /\ ~zc.res

\* C9: a thread in which loading or playing the sound raised has caught and
\* logged it and has returned; its identity is in the ledger and has no
\* other alert; the frame loop can take its next step.
C9_FalhaContida ==
  \A T \in Ids : \A k \in DOMAIN threads[T] :
    threads[T][k].erro
      => /\ threads[T][k].registrado
         /\ threads[T][k].estado = "fim"
         /\ T \in pessoas_na_zona
         /\ Len(threads[T]) = 1
         /\ LoopLivre

\* The alert of T failed, and a later frame has been processed with T again
\* confirmed in the zone.
C9_Testemunha ==
  \E T \in Ids :
    /\ Len(threads[T]) = 1
    /\ threads[T][1].erro
    /\ pc = "emitir"
    /\ T \in ledger_inicio
    /\ T \in zona_frame

\* C10: the frame loop is never held up by an alert thread, and a step of
\* an alert thread changes nothing of the loop: not its position, not the
\* ledger, not the frame source or the encoder.
C10_DisparoIsolado ==
  /\ []LoopLivre
  /\ [][(threads' # threads /\ \A T \in Ids : Len(threads'[T]) = Len(threads[T]))
          => UNCHANGED loop_vars]_vars

\* The alert of T was started on an earlier frame and its thread has not
\* run yet, while the loop is examining the tracks of a later frame.
C10_Testemunha ==
  \E T \in Ids :
    /\ Len(threads[T]) = 1
    /\ threads[T][1].estado = "inicio"
    /\ T \in ledger_inicio
    /\ pc = "rastrear"
    /\ i >= 1

\* C11: once the loop has been left, by the end of the video or by the quit
\* key, the function has returned only with the frame source and the encoder
\* released and the windows destroyed.
C11_RecursosLiberados ==
  /\ (saida # "nenhuma" /\ retorno # "nenhum")
       => (cap = "liberado" /\ out = "liberado" /\ janela = "destruida")
  /\ saida # "nenhuma" => pc \in {"liberar", "fim"}

\* The quit key ended the loop after a frame was shown, and the function
\* has returned.
C11_Testemunha ==
  /\ saida = "tecla"
  /\ retorno # "nenhum"
  /\ frame >= 1
  /\ cap = "liberado" /\ out = "liberado" /\ janela = "destruida"

\* C12: when the source does not open, the function ends with no frame
\* decoded, no ledger entry, no alert and no encoder opened, and what the
\* caller gets differs from what a normal end of the stream gives.
C12_FalhaDeAbertura ==
  (pc = "fim" /\ saida = "nenhuma")
    => /\ frame = 0
       /\ pessoas_na_zona = {}
       /\ \A T \in Ids : Disparos(T) = 0
       /\ out = "fechado"
       /\ retorno # RetornoFimNormal

\* C13: the ledger is empty when the stream starts; no step takes an
\* identity out of it, and no step adds more than one.
C13_LedgerMonotono ==
  /\ []((pc = "inicio" \/ (pc = "ler" /\ frame = 0)) => pessoas_na_zona = {})
  /\ [][/\ pessoas_na_zona \subseteq pessoas_na_zona'
        /\ Cardinality(pessoas_na_zona' \ pessoas_na_zona) <= 1]_vars

\* The ledger has grown over more than one frame.
C13_Testemunha ==
  /\ Cardinality(pessoas_na_zona) >= 2
  /\ ledger_inicio # {}
  /\ ledger_inicio # pessoas_na_zona

\* C14: no alert has been started for an identity that is not in the
\* ledger; an identity seen confirmed in the zone twice in one frame has one
\* alert of that frame at most, and one seen on consecutive frames has none
\* after the first of them.
C14_InsercaoComDecisao ==
  \A T \in Ids :
    /\ Disparos(T) > 0 => T \in pessoas_na_zona
    /\ T \in repetidos => disparos_frame[T] <= 1
    /\ permanencia[T].len >= 2 => permanencia[T].nresto = 0

\* T was reported twice, confirmed and in the zone, in the frame that
\* alerted it.
C14_Testemunha ==
  \E T \in Ids :
    /\ T \in repetidos
    /\ T \notin ledger_inicio
    /\ disparos_frame[T] = 1
    /\ T \in pessoas_na_zona

\* The order of the positions of the loop within one frame.
OrdemDoFrame ==
  { <<"inicio", "ler">>, <<"inicio", "fim">>, <<"ler", "rastrear">>,
    <<"ler", "liberar">>, <<"rastrear", "emitir">>, <<"emitir", "tecla">>,
    <<"tecla", "ler">>, <<"tecla", "liberar">>, <<"liberar", "fim">> }

\* C15: frames are decoded one at a time in source order; within a frame the
\* loop goes from the decode (with detection and tracker update) to the
\* tracks, then to the emission, then to one key check; each decoded frame
\* is emitted exactly once, in order, also the one on which the quit key is
\* seen, and the quit key is seen only after the emission.
C15_OrdemPorFrame ==
  /\ [](IF pc \in {"rastrear", "emitir"}
          THEN emitidos = [k \in 1..(frame - 1) |-> k]
          ELSE emitidos = [k \in 1..frame |-> k])
  /\ [][(pc' # pc => <<pc, pc'>> \in OrdemDoFrame)
          /\ (frame' # frame
                => (frame' = frame + 1 /\ pc = "ler" /\ pc' = "rastrear"))
          /\ ((saida' = "tecla" /\ saida # "tecla")
                => (pc = "tecla" /\ Len(emitidos) = frame))]_vars

\* The quit key was seen on the second frame or later, after it was emitted.
C15_Testemunha ==
  /\ saida = "tecla"
  /\ frame >= 2
  /\ Len(emitidos) = frame

\* C16: the loop ends exactly by a decode that returns no frame or by the
\* quit key seen at the end of a frame; after that no frame is decoded and no
\* alert started; and the function eventually returns.
C16_Terminacao ==
  /\ [][(pc' = "liberar" /\ pc # "liberar")
          => ((pc = "ler" /\ saida' = "fim_video")
                \/ (pc = "tecla" /\ saida' = "tecla"))]_vars
  /\ [][(pc = "ler" /\ pc' # "ler") => pc' \in {"rastrear", "liberar"}]_vars
  /\ [][(pc = "liberar" \/ pc = "fim")
          => (frame' = frame
                /\ pc' \in {"liberar", "fim"}
                /\ \A T \in Ids : Len(threads'[T]) = Len(threads[T]))]_vars
  /\ [](saida # "nenhuma" <=> (pc \in {"liberar", "fim"} /\ cap # "fechado"))
  /\ <>(pc = "fim")

\* The video ran out after two frames or more and the function returned.
C16_Testemunha ==
  /\ pc = "fim"
  /\ saida = "fim_video"
  /\ frame >= 2

\* C19: between frames, the number of alert threads started since the
\* stream began is the number of identities in the ledger.
C19_DisparosIgualLedger ==
  Fronteira => SomaDisparos(Ids) = Cardinality(pessoas_na_zona)

C19_Testemunha ==
  /\ pc = "ler"
  /\ frame >= 2
  /\ Cardinality(pessoas_na_zona) >= 2
  /\ SomaDisparos(Ids) = 2

\* A raw detection of class person with confidence above 0.4.
C17_Qualifica(b) == b.cls = 0 /\ ~(b.conf <= 40)

\* C17: after each decoded frame the tracker has been updated once per
\* frame, the last time with exactly the raw detections of class 0 and
\* confidence above 0.4, in their order, each as (x1, y1, x2-x1, y2-y1) with
\* its confidence and class; also when none qualifies.
C17_FiltroDeDeteccoes ==
  (det.fase = "ler" /\ det.quadro >= 1) =>
    LET q == SelectSeq(det.brutas, C17_Qualifica)
        d == det.tracker_in
    IN /\ det.updates = det.quadro
       /\ Len(d) = Len(q)
       /\ \A k \in 1..Len(d) :
            /\ d[k].conf = q[k].conf /\ d[k].cls = q[k].cls
            /\ d[k].ltwh[1] = q[k].xyxy[1]
            /\ d[k].ltwh[2] = q[k].xyxy[2]
            /\ d[k].ltwh[1] + d[k].ltwh[3] = q[k].xyxy[3]
            /\ d[k].ltwh[2] + d[k].ltwh[4] = q[k].xyxy[4]

\* Of two raw detections of a person, the one at exactly 0.4 was dropped
\* and the one above it was passed on.
C17_Testemunha ==
  /\ det.fase = "ler"
  /\ det.quadro >= 1
  /\ Len(det.brutas) = 2
  /\ det.brutas[1].cls = 0 /\ det.brutas[1].conf = 40
  /\ det.brutas[2].cls = 0 /\ det.brutas[2].conf = 41
  /\ Len(det.tracker_in) = 1
  /\ det.tracker_in[1].ltwh = <<5, 7, 5, 13>>

\* C18: the frame shown and written carries the zone rectangle and the box
\* and label of each track confirmed on that frame, and nothing else; the
\* frame handed to the detector and the tracker carries no drawing.
C18_AnotacaoCompleta ==
  (an.fase = "copiar" /\ an.quadro >= 1) =>
    /\ an.emitido =
         {[ret |-> Zona, texto |-> "ZONA DE SAIDA"]}
           \cup {[ret |-> t.caixa, texto |-> t.id] : t \in an.confirmados}
    /\ \A t \in an.tentativos :
         [ret |-> t.caixa, texto |-> t.id] \in an.emitido
           => \E c \in an.confirmados : c.id = t.id /\ c.caixa = t.caixa
    /\ an.entrada = {}
    /\ an.frame = {}

\* A frame with one confirmed and one tentative track was emitted.
C18_Testemunha ==
  /\ an.fase = "copiar"
  /\ an.quadro >= 1
  /\ Cardinality(an.confirmados) = 1
  /\ Cardinality(an.tentativos) = 1
  /\ Cardinality(an.emitido) = 2

====
